---- MODULE Spec2Model ----
(***************************************************************************)
(* A model of the hackjam.rxjs observable library (rxjs.js): the creation  *)
(* operators of / interval / fromArray / fromPromise / from and the        *)
(* operators map / filter / mapTo / do / startWith / concat / take /       *)
(* first / skip.                                                           *)
(*                                                                         *)
(* An observable is a tree of operator nodes.  One subscribe call walks    *)
(* the tree: every node's subscribe closure is run with the three          *)
(* callbacks it was handed.  A callback is identified by the subscription  *)
(* (sid) and the path of the node that calls it; nextFn / errorFn /        *)
(* completeFn below run the callback a node at that path was given, i.e.   *)
(* the wrapper its parent built around its own callbacks.                  *)
(***************************************************************************)
EXTENDS Integers, Sequences, FiniteSets, TLC

\* ---------------------------------------------------------------- bounds
MaxVal == 2      \* values emitted by of(...) are 1..MaxVal
MaxLen == 2      \* longest argument list of of(...)
MaxArgs == 2     \* most observables handed to one concat call
MaxTicks == 3    \* ticks observed per interval timer
NumSubs == 2     \* subscribe calls made on the observable

Values == 1..MaxVal
Subs == 1..NumSubs

RECURSIVE SeqsUpTo(_, _)
SeqsUpTo(S, n) ==
  IF n = 0 THEN {<<>>}
  ELSE LET shorter == SeqsUpTo(S, n - 1)
       IN shorter \cup {Append(s, x) : s \in {t \in shorter : Len(t) = n - 1}, x \in S}

Lists == SeqsUpTo(Values, MaxLen)

\* ------------------------------------------------------------ notifications
N(v) == [t |-> "next", v |-> v]
C == [t |-> "complete", v |-> 0]
E(e) == [t |-> "error", v |-> e]

\* the reasons a producer fails with, a promise is rejected with
Reasons == {77}

\* --------------------------------------------------------- observable values
Node(op, n, f, vs, kids) == [op |-> op, n |-> n, f |-> f, vs |-> vs, kids |-> kids]

of(args) == Node("of", 0, "", args, <<>>)

interval(period) == Node("interval", period, "", <<>>, <<>>)

\* args = [given |-> FALSE, ...] is a call without argument (default [])
fromArray(args) == IF args.given THEN of(args.items) ELSE of(<<>>)

fromPromise(promise) == Node("fromPromise", 0, promise, <<>>, <<>>)

\* a source built from a hand-written producer: emits vs, then its terminal
\* ("complete", or "error" with the reason)
producer(vs, terminal, reason) == Node("producer", reason, terminal, vs, <<>>)

from(input) ==
  IF input.shape = "promise" THEN fromPromise(input.promise)
  ELSE of(input.items)

\* the receiver of a static call (Observable.map, Observable.concat): the
\* class itself, which has no subscribe; and an argument left out
Observable == Node("Observable", 0, "", <<>>, <<>>)
undefined == Node("undefined", 0, "", <<>>, <<>>)
IsObservable(x) == x.op \notin {"Observable", "undefined"}

map(this, projection, thisArgs) == Node("map", 0, projection, <<>>, <<this, thisArgs>>)
filter(this, predicate, thisArgs) == Node("filter", 0, predicate, <<>>, <<this, thisArgs>>)
mapTo(this, constant) == Node("mapTo", constant, "", <<>>, <<this>>)
do(this) == this
\* (a do that keeps its callback for later)
doNextLater(called) == called

\* do(next, error, complete) { next(); ... }: the calls of next so far
doNext(called) == called + 1
startWith(this, args) == Node("startWith", 0, "", args, <<this>>)
concat(this, observables) == Node("concat", 0, "", <<>>, <<this>> \o observables)
take(this, count) == Node("take", count, "", <<>>, <<this>>)
first(this, predicate) == Node("first", 0, predicate, <<>>, <<this>>)
skip(this, the) == Node("skip", the, "", <<>>, <<this>>)

\* the functions handed to the operators
Project(projection, val) ==
  CASE projection = "plus10" -> val + 10
    [] OTHER -> val

Holds(predicate, val) ==
  CASE predicate = "even" -> val % 2 = 0
    [] predicate = "isMax" -> val = MaxVal
    [] OTHER -> FALSE

\* ------------------------------------------------------------- tree access
RECURSIVE At(_, _)
At(o, path) == IF path = <<>> THEN o ELSE At(o.kids[Head(path)], Tail(path))

RECURSIVE Paths(_)
Paths(o) ==
  {<<>>} \cup UNION {{<<k>> \o p : p \in Paths(o.kids[k])} : k \in DOMAIN o.kids}

Front(path) == SubSeq(path, 1, Len(path) - 1)
Last(path) == path[Len(path)]

Keys(o) == Subs \X Paths(o)

\* (a closure variable declared outside subscribe: one cell for every call)
CellShared(sid, path) == <<1, path>>

\* the variables a subscribe closure declares (let i, let bool, let count,
\* let isDone) live in the call: one cell per subscription and node
Cell(sid, path) == <<sid, path>>

\* ------------------------------------------------------- one program state
\* out[sid, path]: the notifications the node at path has sent, in order, to
\* the callbacks it was subscribed with; out[sid, <<>>] is what the
\* subscriber sid has received
Fresh(o) ==
  [out |-> [k \in Keys(o) |-> <<>>],
   i |-> [k \in Keys(o) |-> 0],
   bool |-> [k \in Keys(o) |-> FALSE],
   isDone |-> [k \in Keys(o) |-> FALSE],
   count |-> [k \in Keys(o) |-> 0],
   timers |-> <<>>,
   jobs |-> <<>>,
   reactions |-> <<>>,
   promise |-> [state |-> "pending", value |-> 0],
   observer |-> [sid \in Subs |-> "positional"],
   failed |-> {},
   threw |-> FALSE]

Emit(st, sid, path, ev) == [st EXCEPT !.out[<<sid, path>>] = Append(@, ev)]

\* ----------------------------------------------------------- the observer
\* how subscribe was called: subscribe(next, error, complete),
\* subscribe(next), or subscribe({next, error, complete})
Observers == {"positional", "next only", "record"}

\* typeof f === 'function' for the callback f that the code of o.subscribe
\* calls as nextFn, errorFn or completeFn: only the class of intro.js takes
\* the callbacks out of a record, the closures of the operators call their
\* parameters as they are
isFunction(o, observer, which) ==
  CASE observer = "positional" -> TRUE
    [] observer = "next only" -> which = "next"
    [] observer = "record" -> o.op = "producer"

\* whether the callback the node at path was subscribed with is a function:
\* every operator hands its source a function of its own as next, and its
\* errorFn and completeFn as they are; concat hands on a completion callback
\* of its own
RECURSIVE callable(_, _, _, _)
callable(o, observer, path, which) ==
  IF path = <<>> THEN isFunction(o, observer, which)
  ELSE IF which = "next" THEN TRUE
  ELSE IF which = "complete" /\ At(o, Front(path)).op = "concat" THEN TRUE
  ELSE callable(o, observer, Front(path), which)

\* calling what is not a function: the TypeError ends the running call
TypeError(st, sid) == [st EXCEPT !.threw = TRUE, !.failed = @ \cup {sid}]

\* --------------------------------------------------- the operators' tests
\* (an off-by-one take: if (++i < count))
takeForwardsBelow(i, count) == i < count

\* take:  if (++i <= count) nextFn(val)
takeForwards(i, count) == i <= count

\* first: (typeof predicate === 'function') && predicate(val), else
\*        predicate === undefined
firstForwards(predicate, val) ==
  IF predicate \notin {"undefined", "null"}
  THEN Holds(predicate, val)
  ELSE predicate = "undefined"

\* skip:  val === the
skipMatches(val, the) == val = the

\* map / filter: thisArgs && thisArgs instanceof Observable
sourceOf(node) == IF IsObservable(node.kids[2]) THEN 2 ELSE 1

\* --------------------------------------------------------- the callbacks
RECURSIVE subscribe(_, _, _, _)
RECURSIVE nextFn(_, _, _, _, _)
RECURSIVE errorFn(_, _, _, _, _)
RECURSIVE completeFn(_, _, _, _)
RECURSIVE forEach(_, _, _, _, _)
RECURSIVE emitAll(_, _, _, _, _)

\* (a map that forwards the value itself)
mapNextUnprojected(st, o, sid, pp, val) == nextFn(st, o, sid, pp, val)

\* (a filter that tests nothing)
filterNextAll(st, o, sid, pp, val) == nextFn(st, o, sid, pp, val)

\* the val => ... wrapper the operator at path pp hands to its source
mapNext(st, o, sid, pp, val) == nextFn(st, o, sid, pp, Project(At(o, pp).f, val))

mapToNext(st, o, sid, pp, val) == nextFn(st, o, sid, pp, At(o, pp).n)

filterNext(st, o, sid, pp, val) ==
  IF Holds(At(o, pp).f, val) THEN nextFn(st, o, sid, pp, val) ELSE st

takeNext(st, o, sid, pp, val) ==
  LET k == Cell(sid, pp)
      s1 == [st EXCEPT !.i[k] = @ + 1]
  IN IF takeForwards(s1.i[k], At(o, pp).n) THEN nextFn(s1, o, sid, pp, val) ELSE s1

\* (a first that never clears its flag)
firstNextUnguarded(st, o, sid, pp, val) ==
  IF firstForwards(At(o, pp).f, val) THEN nextFn(st, o, sid, pp, val) ELSE st

firstNext(st, o, sid, pp, val) ==
  LET k == Cell(sid, pp)
  IN IF st.bool[k] /\ firstForwards(At(o, pp).f, val)
     THEN nextFn([st EXCEPT !.bool[k] = FALSE], o, sid, pp, val)
     ELSE st

\* (a skip that forwards the value it was waiting for)
skipNextFromMatch(st, o, sid, pp, val) ==
  LET k == Cell(sid, pp)
  IN IF st.bool[k] THEN nextFn(st, o, sid, pp, val)
     ELSE IF skipMatches(val, At(o, pp).n)
          THEN nextFn([st EXCEPT !.bool[k] = TRUE], o, sid, pp, val)
     ELSE st

skipNext(st, o, sid, pp, val) ==
  LET k == Cell(sid, pp)
  IN IF st.bool[k] THEN nextFn(st, o, sid, pp, val)
     ELSE IF skipMatches(val, At(o, pp).n) THEN [st EXCEPT !.bool[k] = TRUE]
     ELSE st

\* the node at path calls the nextFn it was subscribed with
nextFn(st, o, sid, path, val) ==
  LET s1 == Emit(st, sid, path, N(val))
      pp == Front(path)
      op == At(o, pp).op
  IN IF st.threw THEN st
     ELSE IF ~callable(o, st.observer[sid], path, "next") THEN TypeError(st, sid)
     ELSE IF path = <<>> THEN s1
     ELSE CASE op = "map" -> mapNext(s1, o, sid, pp, val)
            [] op = "mapTo" -> mapToNext(s1, o, sid, pp, val)
            [] op = "filter" -> filterNext(s1, o, sid, pp, val)
            [] op = "take" -> takeNext(s1, o, sid, pp, val)
            [] op = "first" -> firstNext(s1, o, sid, pp, val)
            [] op = "skip" -> skipNext(s1, o, sid, pp, val)
            [] OTHER -> nextFn(s1, o, sid, pp, val)

\* every operator hands its own errorFn on to its source
errorFn(st, o, sid, path, e) ==
  LET s1 == Emit(st, sid, path, E(e))
  IN IF st.threw THEN st
     ELSE IF ~callable(o, st.observer[sid], path, "error") THEN TypeError(st, sid)
     ELSE IF path = <<>> THEN s1
     ELSE errorFn(s1, o, sid, Front(path), e)

\* concat's callback: observables.forEach(obs => { if (isDone) ... })
forEach(st, o, sid, pp, j) ==
  LET k == Cell(sid, pp)
  IN IF st.threw \/ j > Len(At(o, pp).kids) THEN st
     ELSE IF st.isDone[k]
          THEN forEach(subscribe([st EXCEPT !.isDone[k] = FALSE], o, sid, Append(pp, j)),
                       o, sid, pp, j + 1)
          ELSE forEach(st, o, sid, pp, j + 1)

callback(st, o, sid, pp) ==
  forEach([st EXCEPT !.isDone[Cell(sid, pp)] = TRUE], o, sid, pp, 2)

\* (a concat whose observables never report that they are done)
concatCompleteNeverDone(st, o, sid, pp, idx) ==
  IF idx = 1 THEN callback(st, o, sid, pp) ELSE st

\* the completion callback concat hands to its receiver (callback) and to
\* each of its observables (() => { isDone = true })
concatComplete(st, o, sid, pp, idx) ==
  IF idx = 1 THEN callback(st, o, sid, pp)
  ELSE [st EXCEPT !.isDone[Cell(sid, pp)] = TRUE]

\* the node at path calls the completeFn it was subscribed with
completeFn(st, o, sid, path) ==
  LET s1 == Emit(st, sid, path, C)
      pp == Front(path)
  IN IF st.threw THEN st
     ELSE IF ~callable(o, st.observer[sid], path, "complete") THEN TypeError(st, sid)
     ELSE IF path = <<>> THEN s1
     ELSE IF At(o, pp).op = "concat" THEN concatComplete(s1, o, sid, pp, Last(path))
     ELSE completeFn(s1, o, sid, pp)

\* args.forEach(x => nextFn(x))
emitAll(st, o, sid, path, args) ==
  IF st.threw \/ args = <<>> THEN st
  ELSE emitAll(nextFn(st, o, sid, path, Head(args)), o, sid, path, Tail(args))

\* ------------------------------------------------- the subscribe closures
\* (an of that completes before it emits)
ofSubscribeCompleteFirst(st, o, sid, path) ==
  emitAll(completeFn(st, o, sid, path), o, sid, path, At(o, path).vs)

ofSubscribe(st, o, sid, path) ==
  completeFn(emitAll(st, o, sid, path, At(o, path).vs), o, sid, path)

producerSubscribe(st, o, sid, path) ==
  LET s1 == emitAll(st, o, sid, path, At(o, path).vs)
      terminal == At(o, path).f
  IN CASE terminal = "complete" -> completeFn(s1, o, sid, path)
       [] terminal = "error" -> errorFn(s1, o, sid, path, At(o, path).n)
       [] OTHER -> s1

intervalSubscribe(st, o, sid, path) ==
  [st EXCEPT !.count[Cell(sid, path)] = 0,
             !.timers = Append(@, <<sid, path>>)]

\* what o.subscribe returns: interval's closure returns
\* clearInterval.bind(null, timeout), every other closure returns nothing
returned(o) == IF o.op = "interval" THEN "clearInterval" ELSE "undefined"

\* (a teardown that cancels nothing)
clearIntervalNothing(ts, timeout) == ts

\* clearInterval(timeout): the timer never fires again
clearInterval(ts, timeout) == SelectSeq(ts, LAMBDA t : t # timeout)

\* (a fromPromise that delivers the value of a settled promise at once)
fromPromiseSubscribeAtOnce(st, o, sid, path) ==
  CASE st.promise.state = "fulfilled" ->
         completeFn(nextFn(st, o, sid, path, st.promise.value), o, sid, path)
    [] st.promise.state = "pending" ->
         [st EXCEPT !.reactions = Append(@, <<sid, path>>)]
    [] OTHER -> st

fromPromiseSubscribe(st, o, sid, path) ==
  CASE st.promise.state = "fulfilled" ->
         [st EXCEPT !.jobs = Append(@, [kind |-> "next", sid |-> sid, path |-> path])]
    [] st.promise.state = "pending" ->
         [st EXCEPT !.reactions = Append(@, <<sid, path>>)]
    [] OTHER -> st

mapSubscribe(st, o, sid, path) ==
  subscribe(st, o, sid, Append(path, sourceOf(At(o, path))))

filterSubscribe(st, o, sid, path) ==
  subscribe(st, o, sid, Append(path, sourceOf(At(o, path))))

mapToSubscribe(st, o, sid, path) == subscribe(st, o, sid, Append(path, 1))

\* (a startWith that subscribes to its source before it emits its values)
startWithSubscribeLate(st, o, sid, path) ==
  emitAll(subscribe(st, o, sid, Append(path, 1)), o, sid, path, At(o, path).vs)

startWithSubscribe(st, o, sid, path) ==
  subscribe(emitAll(st, o, sid, path, At(o, path).vs), o, sid, Append(path, 1))

concatSubscribe(st, o, sid, path) ==
  LET s1 == IF IsObservable(At(o, path).kids[1])
            THEN subscribe(st, o, sid, Append(path, 1))
            ELSE callback(st, o, sid, path)
  IN completeFn(s1, o, sid, path)

takeSubscribe(st, o, sid, path) ==
  subscribe([st EXCEPT !.i[Cell(sid, path)] = 0], o, sid, Append(path, 1))

firstSubscribe(st, o, sid, path) ==
  subscribe([st EXCEPT !.bool[Cell(sid, path)] = TRUE], o, sid, Append(path, 1))

skipSubscribe(st, o, sid, path) ==
  subscribe([st EXCEPT !.bool[Cell(sid, path)] = FALSE], o, sid, Append(path, 1))

subscribe(st, o, sid, path) ==
  LET op == At(o, path).op
  IN CASE st.threw -> st
       [] op = "of" -> ofSubscribe(st, o, sid, path)
       [] op = "producer" -> producerSubscribe(st, o, sid, path)
       [] op = "interval" -> intervalSubscribe(st, o, sid, path)
       [] op = "fromPromise" -> fromPromiseSubscribe(st, o, sid, path)
       [] op = "map" -> mapSubscribe(st, o, sid, path)
       [] op = "filter" -> filterSubscribe(st, o, sid, path)
       [] op = "mapTo" -> mapToSubscribe(st, o, sid, path)
       [] op = "startWith" -> startWithSubscribe(st, o, sid, path)
       [] op = "concat" -> concatSubscribe(st, o, sid, path)
       [] op = "take" -> takeSubscribe(st, o, sid, path)
       [] op = "first" -> firstSubscribe(st, o, sid, path)
       [] op = "skip" -> skipSubscribe(st, o, sid, path)

\* ------------------------------------------------------------ the programs
\* the observables the model subscribes to: every creation operator, every
\* operator over every creation operator, concat over a few constituents
Ramp(n) == [j \in 1..n |-> j]
Short == {vs \in Lists : Len(vs) <= 1}

Promise == "promise"

Creations ==
  {of(vs) : vs \in Lists}
    \cup {fromArray([given |-> TRUE, items |-> vs]) : vs \in Lists}
    \cup {fromArray([given |-> FALSE, items |-> <<>>])}
    \cup {from([shape |-> "array", items |-> vs, promise |-> Promise]) : vs \in Lists}
    \cup {from([shape |-> "promise", items |-> <<>>, promise |-> Promise])}
    \cup {fromPromise(Promise), interval(1)}

Failing == {producer(vs, "error", reason) : vs \in Short, reason \in Reasons}

Counts == (0 - 1)..(MaxLen + 1)

Operators(this) ==
  {map(this, "plus10", undefined), map(Observable, "plus10", this),
   filter(this, "even", undefined), filter(Observable, "even", this),
   mapTo(this, MaxVal), do(this)}
    \cup {take(this, count) : count \in Counts}
    \cup {first(this, predicate) : predicate \in {"undefined", "isMax", "even"}}
    \cup {skip(this, the) : the \in Values}
    \cup {startWith(this, args) : args \in Short \cup {<<2, 1>>}}

Parts ==
  {of(Ramp(n)) : n \in 0..2}
    \cup {fromPromise(Promise), interval(1)}
    \cup {producer(<<1>>, "error", reason) : reason \in Reasons}

UsesInterval(o) == \E path \in Paths(o) : At(o, path).op = "interval"
UsesPromise(o) == \E path \in Paths(o) : At(o, path).op = "fromPromise"

\* every concat of up to MaxArgs observables; a promise and a timer side by
\* side only in the concats of two
Concats ==
  {c \in {concat(this, observables) :
            this \in Parts \cup {Observable}, observables \in SeqsUpTo(Parts, MaxArgs)} :
     (UsesInterval(c) /\ UsesPromise(c)) =>
       Cardinality({j \in DOMAIN c.kids : IsObservable(c.kids[j])}) <= 2}

\* operators over a concat, and concat over operators
Limited ==
  UNION {{take(this, 1), first(this, "undefined"), skip(this, 1)} :
           this \in {of(Ramp(2)), fromPromise(Promise), interval(1)}}

Nested ==
  UNION {{take(c, 1), first(c, "undefined"), skip(c, 1), map(c, "plus10", undefined),
          startWith(c, <<1>>)} : c \in {concat(a, <<b>>) : a, b \in Parts}}
    \cup {concat(u, <<part>>) : u \in Limited, part \in Parts}
    \cup {concat(part, <<u>>) : u \in Limited, part \in Parts}

Programs ==
  Creations \cup Failing
    \cup UNION {Operators(this) : this \in Creations \cup Failing}
    \cup Concats \cup Nested

\* an observable as the program has built it, with the calls of the callback
\* given to do that building it has made
Built ==
  {[o |-> o, called |-> 0, this |-> undefined] : o \in Programs}
    \cup {[o |-> do(this), called |-> doNext(0), this |-> this] :
             this \in Creations \cup Failing}

\* ---------------------------------------------------------------- the state
VARIABLES prog, subscribed, hist, out, i, bool, isDone, count, timers, jobs,
          reactions, promise, torn, observer, failed, called, doThis

vars == <<prog, subscribed, hist, out, i, bool, isDone, count, timers, jobs,
          reactions, promise, torn, observer, failed, called, doThis>>

State ==
  [out |-> out, i |-> i, bool |-> bool, isDone |-> isDone, count |-> count,
   timers |-> timers, jobs |-> jobs, reactions |-> reactions, promise |-> promise,
   observer |-> observer, failed |-> failed, threw |-> FALSE]

Becomes(st) ==
  /\ out' = st.out
  /\ i' = st.i
  /\ bool' = st.bool
  /\ isDone' = st.isDone
  /\ count' = st.count
  /\ timers' = st.timers
  /\ jobs' = st.jobs
  /\ reactions' = st.reactions
  /\ promise' = st.promise
  /\ observer' = st.observer
  /\ failed' = st.failed

Init ==
  /\ \E built \in Built :
       prog = built.o /\ called = built.called /\ doThis = built.this
  /\ subscribed = {}
  /\ hist = [sid \in Subs |-> <<>>]
  /\ out = Fresh(prog).out
  /\ i = Fresh(prog).i
  /\ bool = Fresh(prog).bool
  /\ isDone = Fresh(prog).isDone
  /\ count = Fresh(prog).count
  /\ timers = <<>>
  /\ jobs = <<>>
  /\ reactions = <<>>
  /\ promise = Fresh(prog).promise
  /\ torn = {}
  /\ observer = Fresh(prog).observer
  /\ failed = {}

\* prog.subscribe(...) with the observer in the given form, the whole
\* synchronous call
SubscribeWith(sid, form) ==
  /\ sid = Cardinality(subscribed) + 1
  /\ subscribed' = subscribed \cup {sid}
  /\ Becomes(subscribe([State EXCEPT !.observer[sid] = form], prog, sid, <<>>))
  /\ UNCHANGED <<prog, hist, torn, called, doThis>>

\* prog.subscribe(nextFn, errorFn, completeFn)
Subscribe(sid) == SubscribeWith(sid, "positional")

\* resolve(value) of the promise: its reactions become jobs, in order
Resolve(value) ==
  /\ UsesPromise(prog)
  /\ promise.state = "pending"
  /\ promise' = [state |-> "fulfilled", value |-> value]
  /\ jobs' = jobs \o [n \in 1..Len(reactions) |->
                        [kind |-> "next", sid |-> reactions[n][1], path |-> reactions[n][2]]]
  /\ reactions' = <<>>
  /\ UNCHANGED <<prog, subscribed, hist, out, i, bool, isDone, count, timers, torn,
                 observer, failed, called, doThis>>

\* reject(reason): neither then-callback of fromPromise is ever run
Reject(reason) ==
  /\ UsesPromise(prog)
  /\ promise.state = "pending"
  /\ promise' = [state |-> "rejected", value |-> reason]
  /\ reactions' = <<>>
  /\ UNCHANGED <<prog, subscribed, hist, out, i, bool, isDone, count, timers, jobs, torn,
                 observer, failed, called, doThis>>

\* a microtask of fromPromise: val => nextFn(val), whose return queues the
\* second one; or () => completeFn()
jobStep(st, o, job) ==
  IF job.kind = "next"
  THEN LET s1 == nextFn(st, o, job.sid, job.path, st.promise.value)
       IN IF s1.threw THEN s1
          ELSE [s1 EXCEPT !.jobs = Append(@, [job EXCEPT !.kind = "complete"])]
  ELSE completeFn(st, o, job.sid, job.path)

\* (a timer callback that increments first: nextFn(++count))
tickStepIncrementFirst(st, o, sid, path) ==
  LET k == Cell(sid, path)
  IN nextFn([st EXCEPT !.count[k] = @ + 1], o, sid, path, st.count[k] + 1)

\* the timer callback of interval: function () { nextFn(count++) }
tickStep(st, o, sid, path) ==
  LET k == Cell(sid, path)
  IN nextFn([st EXCEPT !.count[k] = @ + 1], o, sid, path, st.count[k])

\* the first job of the microtask queue runs
RunJob ==
  /\ jobs # <<>>
  /\ LET job == Head(jobs)
     IN /\ Becomes(jobStep([State EXCEPT !.jobs = Tail(@)], prog, job))
        /\ hist' = [hist EXCEPT ![job.sid] = Append(@, [kind |-> job.kind, path |-> job.path])]
  /\ UNCHANGED <<prog, subscribed, torn, called, doThis>>

\* the timers fire in turn (all have the same period), and only when no
\* microtask is left
Due == {n \in 1..Len(timers) : count[Cell(timers[n][1], timers[n][2])] < MaxTicks}

Tick ==
  /\ jobs = <<>>
  /\ Due # {}
  /\ LET n == CHOOSE m \in Due : \A l \in Due : m <= l
         sid == timers[n][1]
         path == timers[n][2]
         st == [State EXCEPT !.timers = SubSeq(@, 1, n - 1) \o SubSeq(@, n + 1, Len(@))
                                          \o <<timers[n]>>]
     IN /\ Becomes(tickStep(st, prog, sid, path))
        /\ hist' = [hist EXCEPT ![sid] = Append(@, [kind |-> "tick", path |-> path])]
  /\ UNCHANGED <<prog, subscribed, torn, called, doThis>>

\* the subscriber invokes the teardown subscribe returned to it
Teardown(sid) ==
  /\ sid \in subscribed \ torn
  /\ returned(prog) = "clearInterval"
  /\ timers' = clearInterval(timers, <<sid, <<>>>>)
  /\ torn' = torn \cup {sid}
  /\ UNCHANGED <<prog, subscribed, hist, out, i, bool, isDone, count, jobs, reactions,
                 promise, observer, failed, called, doThis>>

Next ==
  \/ \E sid \in Subs : Subscribe(sid)
  \/ \E sid \in Subs : Teardown(sid)
  \/ \E value \in Values : Resolve(value)
  \/ \E reason \in Reasons : Reject(reason)
  \/ RunJob
  \/ Tick

Spec == Init /\ [][Next]_vars

\* the event loop runs every queued microtask and every due timer
FairSpec == Spec /\ WF_vars(RunJob) /\ WF_vars(Tick)

\* the same program with subscribers that hand over their observer in any of
\* its forms
ObserverNext ==
  \/ \E sid \in Subs, form \in Observers : SubscribeWith(sid, form)
  \/ \E sid \in Subs : Teardown(sid)
  \/ \E value \in Values : Resolve(value)
  \/ \E reason \in Reasons : Reject(reason)
  \/ RunJob
  \/ Tick

ObserverSpec == Init /\ [][ObserverNext]_vars

\* ------------------------------------------------------------ observations
Log(sid) == out[<<sid, <<>>>>]

IsNext(ev) == ev.t = "next"
IsTerminal(ev) == ev.t \in {"complete", "error"}

\* the values of the next notifications of a sequence, in order
Nexts(evs) == LET ns == SelectSeq(evs, IsNext) IN [n \in 1..Len(ns) |-> ns[n].v]

Times(evs, ev) == Cardinality({n \in 1..Len(evs) : evs[n] = ev})

Min(a, b) == IF a <= b THEN a ELSE b
Max(a, b) == IF a >= b THEN a ELSE b

\* ------------------------------------------------------------------ claims
\* the constituents concat runs: its receiver, when it has one, then its
\* observables
Constituents(o) == {j \in DOMAIN o.kids : IsObservable(o.kids[j])}

\* the path of the source the operator at the root reads from
SourcePath == IF prog.op \in {"map", "filter"} THEN <<sourceOf(prog)>> ELSE <<1>>

\* C1: in every subscription, once complete or error has been delivered to
\* the subscriber, no next is delivered to it afterwards.
NoNextAfterTerminal ==
  \A sid \in subscribed :
    \A m, n \in 1..Len(Log(sid)) :
      (m < n /\ IsTerminal(Log(sid)[m])) => ~IsNext(Log(sid)[n])

\* C2: concat delivers complete to its subscriber only once every one of its
\* constituents has completed, and at most once.
ConcatCompletesAfterLast ==
  \A sid \in subscribed :
    (prog.op = "concat" /\ Times(Log(sid), C) > 0) =>
      /\ Times(Log(sid), C) = 1
      /\ \A j \in Constituents(prog) : Times(out[<<sid, <<j>>>>], C) > 0

\* a source that has failed: error(reason) is its only terminal and its last
\* notification
Failed(evs, reason) ==
  /\ evs # <<>>
  /\ evs[Len(evs)] = E(reason)
  /\ Cardinality({n \in 1..Len(evs) : IsTerminal(evs[n])}) = 1

\* C3: when a source of the operator at the root has signalled error(e), the
\* subscriber has received error(e) exactly once and as its last notification.
ErrorIsFinal ==
  \A sid \in subscribed : \A reason \in Reasons :
    (\E j \in Constituents(prog) : Failed(out[<<sid, <<j>>>>], reason)) =>
      /\ Times(Log(sid), E(reason)) = 1
      /\ Log(sid)[Len(Log(sid))] = E(reason)

\* every operator but concat forwards the error once and last
ErrorIsFinalButConcat == prog.op # "concat" => ErrorIsFinal

\* the run of one subscription alone: subscribe on a fresh state, then the
\* timer and promise callbacks of that subscription, in the order they ran
RECURSIVE Replay(_, _, _, _)
Replay(st, o, sid, events) ==
  IF events = <<>> THEN st
  ELSE LET ev == Head(events)
           s1 == IF ev.kind = "tick" THEN tickStep(st, o, sid, ev.path)
                 ELSE jobStep(st, o, [kind |-> ev.kind, sid |-> sid, path |-> ev.path])
       IN Replay(s1, o, sid, Tail(events))

Alone(sid) ==
  Replay(subscribe([Fresh(prog) EXCEPT !.promise = promise], prog, sid, <<>>),
         prog, sid, hist[sid])

\* C4: whatever the other subscriptions to the same observable have done,
\* every subscriber has received exactly what it would have received from
\* the same timer and promise callbacks had it been the only subscriber.
SubscriptionsIndependent ==
  \A sid \in subscribed : Log(sid) = Alone(sid).out[<<sid, <<>>>>]

\* two subscriptions to interval(p).take(n), the first one ahead of the second
TwoSubscriptionsInterleaved ==
  /\ prog = take(interval(1), 2)
  /\ subscribed = {1, 2}
  /\ Len(Log(2)) = 1
  /\ Len(Log(1)) = 2
  /\ Len(hist[1]) = 3

\* C5: a subscriber of of(...vs) or fromArray(vs) has received, as soon as
\* subscribe has returned, next once per value in argument order and then
\* complete once, and nothing else.
OfDeliversAll ==
  \A sid \in subscribed : \A vs \in Lists :
    (\/ prog = of(vs)
     \/ prog = fromArray([given |-> TRUE, items |-> vs])
     \/ (vs = <<>> /\ prog = fromArray([given |-> FALSE, items |-> <<>>])))
      => Log(sid) = [n \in 1..Len(vs) |-> N(vs[n])] \o <<C>>

\* of with the longest argument list has been subscribed to
OfSubscribed ==
  /\ prog.op = "of"
  /\ Len(prog.vs) = MaxLen
  /\ 1 \in subscribed

\* an observable with only synchronous, completing sources
IsSynchronous(o) ==
  \A path \in Paths(o) : At(o, path).op \notin {"interval", "fromPromise", "producer"}

\* what a subscriber of o has received when subscribe returns
RunLog(o) == subscribe(Fresh(o), o, 1, <<>>).out[<<1, <<>>>>]

RECURSIVE Flatten(_)
Flatten(seqs) == IF seqs = <<>> THEN <<>> ELSE Head(seqs) \o Flatten(Tail(seqs))

\* the constituents of a concat, in order, and its two calling forms
ConstituentsOf(o) == SelectSeq(o.kids, IsObservable)
InstanceForm(parts) == concat(Head(parts), Tail(parts))
StaticForm(parts) == concat(Observable, parts)

\* C6: a concat of synchronous constituents delivers the values of its
\* constituents, constituent after constituent and each in its own order, then
\* complete; the instance form and the static form deliver the same sequence.
ConcatInOrder ==
  \A sid \in subscribed :
    (prog.op = "concat" /\ IsSynchronous(prog)) =>
      LET parts == ConstituentsOf(prog)
          values == Flatten([n \in 1..Len(parts) |-> Nexts(RunLog(parts[n]))])
      IN /\ Log(sid) = [n \in 1..Len(values) |-> N(values[n])] \o <<C>>
         /\ parts # <<>> =>
              /\ RunLog(InstanceForm(parts)) = Log(sid)
              /\ RunLog(StaticForm(parts)) = Log(sid)

\* a concat of a receiver and two observables, all synchronous, has run
ConcatOfThreeRan ==
  /\ prog.op = "concat"
  /\ IsSynchronous(prog)
  /\ Len(ConstituentsOf(prog)) = 3
  /\ IsObservable(prog.kids[1])
  /\ 1 \in subscribed
  /\ Len(Log(1)) >= 4

\* C7: the values take(count) has delivered are the first min(count, n) of the
\* n values its source has emitted, in order (none for count <= 0).
TakeFirstCount ==
  \A sid \in subscribed :
    prog.op = "take" =>
      LET src == Nexts(out[<<sid, <<1>>>>])
      IN Nexts(Log(sid)) = SubSeq(src, 1, Min(Max(prog.n, 0), Len(src)))

\* take(1) whose source has emitted more than one value
TakeSuppressed ==
  /\ prog.op = "take"
  /\ prog.n = 1
  /\ 1 \in subscribed
  /\ Len(Nexts(out[<<1, <<1>>>>])) >= 2

Passing(src) == {n \in 1..Len(src) : prog.f = "undefined" \/ Holds(prog.f, src[n])}

\* C9: first(predicate) has delivered the earliest source value satisfying the
\* predicate (first(): the very first value) once the source has emitted one,
\* and nothing else; never more than one value.
FirstDeliversOne ==
  \A sid \in subscribed :
    prog.op = "first" =>
      LET src == Nexts(out[<<sid, <<1>>>>])
      IN Nexts(Log(sid)) =
           IF Passing(src) = {} THEN <<>>
           ELSE <<src[CHOOSE n \in Passing(src) : \A m \in Passing(src) : n <= m]>>

\* first(predicate) whose source has emitted two values satisfying predicate
FirstOfTwoPassing ==
  /\ prog.op = "first"
  /\ prog.f # "undefined"
  /\ 1 \in subscribed
  /\ Cardinality(Passing(Nexts(out[<<1, <<1>>>>]))) >= 2

\* C10: skip(n) has delivered every source value but the first n, in order,
\* whatever the values are.
SkipDropsFirstN ==
  \A sid \in subscribed :
    prog.op = "skip" =>
      LET src == Nexts(out[<<sid, <<1>>>>])
      IN Nexts(Log(sid)) = SubSeq(src, prog.n + 1, Len(src))

\* C11: once the teardown returned by interval(period).subscribe has been
\* invoked, nothing more is delivered to that subscriber, however many ticks
\* it had received before.
NoNextAfterTeardown ==
  [][\A sid \in torn : Log(sid)' = Log(sid)]_vars

\* a subscriber tore down after its first tick while the timer of another
\* subscriber went on
TornWhileOthersTick ==
  /\ prog.op = "interval"
  /\ 1 \in torn
  /\ Len(Log(1)) = 1
  /\ 2 \in subscribed \ torn
  /\ Len(Log(2)) = 2

\* C12: the k-th tick of a subscription to interval(period) delivers
\* next(k - 1), so the subscriber has received 0, 1, 2, ... without gap or
\* repetition, and neither complete nor error.
IntervalCounts ==
  \A sid \in subscribed :
    prog.op = "interval" => Log(sid) = [k \in 1..Len(hist[sid]) |-> N(k - 1)]

\* a subscriber of interval has received every tick the model follows
IntervalTicked ==
  /\ prog.op = "interval"
  /\ 1 \in subscribed
  /\ Len(hist[1]) = MaxTicks

\* C13: a subscriber of fromPromise(promise) (or from(promise)) has received
\* nothing when subscribe returns; every notification comes from a promise
\* job, and once the jobs of a promise fulfilled with v have run it has
\* received exactly next(v), then complete.
FromPromiseDelivers ==
  \A sid \in subscribed :
    (prog \in {fromPromise(Promise),
               from([shape |-> "promise", items |-> <<>>, promise |-> Promise])}) =>
      /\ Log(sid) = SubSeq(<<N(promise.value), C>>, 1, Len(hist[sid]))
      /\ (promise.state = "fulfilled" /\ jobs = <<>>) =>
           Log(sid) = <<N(promise.value), C>>

\* a subscription made after the promise was fulfilled has received its value
\* and complete
FromPromiseSettledFirst ==
  /\ prog = fromPromise(Promise)
  /\ subscribed = {1, 2}
  /\ Log(1) = <<N(promise.value), C>>
  /\ Log(2) = <<N(promise.value)>>

\* C14: a subscriber of fromPromise(promise) whose promise was rejected with
\* err has received error(err) and nothing else, once no promise job is left.
FromPromiseRejects ==
  \A sid \in subscribed :
    (prog = fromPromise(Promise) /\ promise.state = "rejected" /\ jobs = <<>>) =>
      Log(sid) = <<E(promise.value)>>

\* C15: a subscriber of source.startWith(v1..vk) has received v1..vk in
\* argument order, followed by exactly what the source has sent: its values
\* in order and its terminal notification.
StartWithFirst ==
  \A sid \in subscribed :
    prog.op = "startWith" =>
      Log(sid) = [n \in 1..Len(prog.vs) |-> N(prog.vs[n])] \o out[<<sid, <<1>>>>]

\* startWith of two values over a source that has emitted and completed
StartWithTwoRan ==
  /\ prog.op = "startWith"
  /\ Len(prog.vs) = 2
  /\ 1 \in subscribed
  /\ Len(out[<<1, <<1>>>>]) >= 2
  /\ Times(Log(1), C) = 1

\* the two calling forms of map and filter over the same source
MethodForm(o) == Node(o.op, o.n, o.f, o.vs, <<o.kids[sourceOf(o)], undefined>>)
StaticCall(o) == Node(o.op, o.n, o.f, o.vs, <<Observable, o.kids[sourceOf(o)]>>)

\* the callbacks a subscription has run, as the same callbacks of an
\* observable whose source is its j-th child
Moved(events, j) == [n \in 1..Len(events) |-> [events[n] EXCEPT !.path = <<j>> \o Tail(@)]]

\* what subscriber sid would have received from o, given the same promise and
\* the same timer and promise callbacks
LogOf(o, sid) ==
  Replay(subscribe([Fresh(o) EXCEPT !.promise = promise], o, sid, <<>>),
         o, sid, Moved(hist[sid], sourceOf(o))).out[<<sid, <<>>>>]

\* C16: a subscriber of map(projection) has received projection(v) for every
\* value v its source has sent, in order, and the source's error / complete
\* unchanged; Observable.map(projection, source) and source.map(projection)
\* deliver the same sequence.
MapProjectsEach ==
  \A sid \in subscribed :
    prog.op = "map" =>
      LET src == out[<<sid, SourcePath>>]
      IN /\ Log(sid) = [n \in 1..Len(src) |->
                          IF IsNext(src[n]) THEN N(Project(prog.f, src[n].v)) ELSE src[n]]
         /\ LogOf(MethodForm(prog), sid) = Log(sid)
         /\ LogOf(StaticCall(prog), sid) = Log(sid)

\* a static map over a source that has emitted two values and completed
MapStaticRan ==
  /\ prog.op = "map"
  /\ sourceOf(prog) = 2
  /\ 1 \in subscribed
  /\ Len(Nexts(Log(1))) >= 2
  /\ Times(Log(1), C) = 1

\* a notification filter(predicate) lets through
Passes(ev) == IsNext(ev) => Holds(prog.f, ev.v)

\* C17: a subscriber of filter(predicate) has received exactly the values of
\* its source that satisfy predicate, in order and unmodified, and the
\* source's error / complete unchanged; Observable.filter(predicate, source)
\* and source.filter(predicate) deliver the same sequence.
FilterKeepsPassing ==
  \A sid \in subscribed :
    prog.op = "filter" =>
      /\ Log(sid) = SelectSeq(out[<<sid, SourcePath>>], Passes)
      /\ LogOf(MethodForm(prog), sid) = Log(sid)
      /\ LogOf(StaticCall(prog), sid) = Log(sid)

\* a filter that has dropped a value and let a value through
FilterDropped ==
  /\ prog.op = "filter"
  /\ 1 \in subscribed
  /\ Len(Nexts(Log(1))) >= 1
  /\ Len(Nexts(out[<<1, SourcePath>>])) > Len(Nexts(Log(1)))

\* C18: a subscriber that passed the record {next, error, complete} has
\* received the same notifications as a subscriber of the same observable
\* that passed the three callbacks one by one and has had the same timer and
\* promise callbacks.
RecordAsPositional ==
  \A a, b \in subscribed :
    (observer[a] = "positional" /\ observer[b] = "record" /\ hist[a] = hist[b]) =>
      Log(b) = Log(a)

\* C19: a subscriber that passed only next has received every value a
\* subscriber with three callbacks and the same timer and promise callbacks
\* has received, and none of its calls has ended in a TypeError.
NextOnlyServed ==
  \A a, b \in subscribed :
    (observer[a] = "positional" /\ observer[b] = "next only" /\ hist[a] = hist[b]) =>
      /\ Nexts(Log(b)) = Nexts(Log(a))
      /\ b \notin failed

\* C20: as long as subscribe has not been called, no callback has been
\* invoked, no timer started, no promise callback registered and no source
\* subscribed to.
NothingBeforeSubscribe ==
  subscribed = {} =>
    /\ called = 0
    /\ \A k \in DOMAIN out : out[k] = <<>>
    /\ timers = <<>>
    /\ jobs = <<>>
    /\ reactions = <<>>

\* the values a constituent of a concat emits before it completes
ValuesOf(part) == IF part.op = "fromPromise" THEN <<promise.value>> ELSE part.vs

\* nothing is left to run: the promise is fulfilled and every job has run
Settled == jobs = <<>> /\ (UsesPromise(prog) => promise.state = "fulfilled")

\* C21: once nothing is left to run, a concat of completing constituents
\* (of, fromPromise) has subscribed to each of them exactly once, each one
\* has sent its values and its completion, and the subscriber has received
\* the values of all of them, constituent after constituent.
ConcatLosesNone ==
  \A sid \in subscribed :
    (/\ prog.op = "concat"
     /\ \A j \in Constituents(prog) : prog.kids[j].op \in {"of", "fromPromise"}
     /\ Settled) =>
      LET parts == ConstituentsOf(prog)
          values == Flatten([n \in 1..Len(parts) |-> ValuesOf(parts[n])])
      IN /\ \A j \in Constituents(prog) :
              out[<<sid, <<j>>>>] =
                [n \in 1..Len(ValuesOf(prog.kids[j])) |-> N(ValuesOf(prog.kids[j])[n])] \o <<C>>
         /\ Nexts(Log(sid)) = values

\* the same, for the concats in which no argument but the last is a promise
ConcatLosesNoneBehindPromise ==
  (\A j \in Constituents(prog) :
     (1 < j /\ j < Len(prog.kids)) => prog.kids[j].op # "fromPromise") => ConcatLosesNone

\* the elements of seq at the places in S, in the order of seq
RECURSIVE Pick(_, _)
Pick(seq, S) ==
  IF seq = <<>> THEN <<>>
  ELSE IF Len(seq) \in S THEN Append(Pick(Front(seq), S), Last(seq))
  ELSE Pick(Front(seq), S)

\* the places of src behind the first value equal to the, and the places of
\* its error and complete
BehindMatch(src, the) ==
  {n \in 1..Len(src) :
     IsNext(src[n]) => \E m \in 1..(n - 1) : IsNext(src[m]) /\ src[m].v = the}

====
